---------------------------- MODULE Spec2Model ----------------------------
(***************************************************************************)
(* A state-machine model of the audio-transcriber repository:              *)
(*   transcriber.py  paragraph grouping and the incremental transcript     *)
(*                   writer (transcribe_audio and its helpers),            *)
(*   main.py         the batch loop,                                       *)
(*   utils.py        discovery of the untranscribed audio files,           *)
(*   diarizer.py     assign_speaker_to_segment and format_speaker_name.    *)
(*                                                                         *)
(* Times are integers counting half seconds (3 is 1.5 s).  A text is a     *)
(* sequence of one-character strings.  A file is a sequence of lines, a    *)
(* line a sequence of strings (its pieces, without the line break).        *)
(* Segment texts are taken to hold no line break.                          *)
(***************************************************************************)
EXTENDS Integers, Sequences, FiniteSets, TLC

VARIABLES
    audio_dir,            \* the audio files on disk
    transcripts,          \* output dir: base name -> [exists, lines]
    finalized,            \* base name -> the audio file whose transcript at
                          \* that path transcribe_audio has completed
    main_pc,              \* position of main.py's __main__ block
    untranscribed_files,  \* main.py:41
    file_idx,             \* main.py:57, the loop's position (1-based)
    success_count,        \* main.py:54
    failed_files,         \* main.py:55
    pc,                   \* position inside transcribe_audio
    audio_path,           \* transcribe_audio's argument
    pause_threshold,      \* transcribe_audio's argument
    mode,                 \* what the transcription collaborator yields
    stream,               \* the raw segments segments_iter has yielded
    all_segments,         \* transcriber.py:148
    current_paragraph,    \* transcriber.py:149
    paragraph_count,      \* transcriber.py:150
    previous_segment,     \* transcriber.py:151; <<>> is None
    content,              \* remove_in_progress_marker's local
    emitted,              \* the paragraphs written so far, in order
    result,               \* transcribe_audio's return value
    a_pc,                 \* position inside assign_speaker_to_segment
    segment_start,
    segment_end,
    diarization,          \* the turns, in itertracks order
    turn_idx,
    max_overlap,
    assigned_speaker,
    f_pc,                 \* position inside format_speaker_name
    speaker_id,
    formatted

mainVars == <<main_pc, untranscribed_files, file_idx, success_count, failed_files>>
diskVars == <<audio_dir, transcripts, finalized>>
jobArgs == <<audio_path, pause_threshold, mode>>
loopVars == <<stream, all_segments, current_paragraph, paragraph_count,
              previous_segment>>
jobVars == <<pc, jobArgs, loopVars, content, emitted, result>>
assignVars == <<a_pc, segment_start, segment_end, diarization, turn_idx,
                max_overlap, assigned_speaker>>
formatVars == <<f_pc, speaker_id, formatted>>
vars == <<mainVars, diskVars, jobVars, assignVars, formatVars>>

(***************************************************************************)
(* Bounds of the model.                                                    *)
(***************************************************************************)
MaxSegs == 3        \* segments one stream yields at most
MaxTime == 1        \* segment times range over 0 .. MaxTime
MaxPause == 1       \* pause thresholds range over 0 .. MaxPause

(***************************************************************************)
(* Program constants.                                                      *)
(***************************************************************************)
PAUSE_THRESHOLD == 3
RULE_WIDTH == 50
OUTPUT_DIR == "output/transcript"

(***************************************************************************)
(* Texts.                                                                  *)
(***************************************************************************)
Whitespace == {" "}
Terminators == {".", "!", "?"}

RECURSIVE LStrip(_)
LStrip(t) ==
    IF t # <<>> /\ Head(t) \in Whitespace THEN LStrip(Tail(t)) ELSE t

RECURSIVE RStrip(_)
RStrip(t) ==
    IF t # <<>> /\ t[Len(t)] \in Whitespace
    THEN RStrip(SubSeq(t, 1, Len(t) - 1))
    ELSE t

\* str.strip()
Strip(t) == RStrip(LStrip(t))

\* " ".join(texts)
RECURSIVE JoinTexts(_)
JoinTexts(texts) ==
    IF texts = <<>> THEN <<>>
    ELSE IF Len(texts) = 1 THEN texts[1]
    ELSE texts[1] \o <<" ">> \o JoinTexts(Tail(texts))

Digit(d) ==
    CASE d = 0 -> "0" [] d = 1 -> "1" [] d = 2 -> "2" [] d = 3 -> "3"
      [] d = 4 -> "4" [] d = 5 -> "5" [] d = 6 -> "6" [] d = 7 -> "7"
      [] d = 8 -> "8" [] d = 9 -> "9"

RECURSIVE NatToStr(_)
NatToStr(n) ==
    IF n < 10 THEN Digit(n) ELSE NatToStr(n \div 10) \o Digit(n % 10)

\* f"{t:.2f}" of a time of t half seconds
Fmt2(t) == NatToStr(t \div 2) \o (IF t % 2 = 0 THEN ".00" ELSE ".50")

RECURSIVE Repeat(_, _)
Repeat(s, n) == IF n = 0 THEN "" ELSE s \o Repeat(s, n - 1)

(***************************************************************************)
(* The lines of a transcript file.                                         *)
(***************************************************************************)
PathOf(audio) == "audio/" \o audio.base \o "." \o audio.ext
TranscriptPath(audio) == OUTPUT_DIR \o "/" \o audio.base \o "_transcript.txt"

AudioLine(audio) == <<"Audio file: ", PathOf(audio)>>
StartedLine == <<"Started at: ", "%Y-%m-%d %H:%M:%S">>
RuleLine == <<Repeat("=", RULE_WIDTH)>>
BlankLine == <<>>
MarkerLine == <<"Transcription in progress...">>

\* f"[{paragraph_start:.2f}s -> {paragraph_end:.2f}s] {paragraph_text}"
UnitLine(paragraph_segments) ==
    <<"[" \o Fmt2(paragraph_segments[1].start) \o "s -> "
          \o Fmt2(paragraph_segments[Len(paragraph_segments)].end) \o "s] ">>
    \o JoinTexts([i \in 1 .. Len(paragraph_segments) |-> paragraph_segments[i].text])

NoAudio == [base |-> "", ext |-> ""]
Bases == {"a", "b"}

NoFile == [exists |-> FALSE, lines |-> <<>>]
FileOf(lines) == [exists |-> TRUE, lines |-> lines]

(***************************************************************************)
(* transcriber.py: the pure helpers.                                       *)
(***************************************************************************)
ends_with_sentence_terminator(text) ==
    LET t == Strip(text) IN Len(t) > 0 /\ t[Len(t)] \in Terminators

\* a faulty variant: only the pause ends a paragraph
CheckShouldEndParagraphPauseOnly(current_segment, prev, threshold) ==
    prev # <<>> /\ current_segment.start - prev[1].end >= threshold

\* a faulty variant: the pause has to exceed the threshold
CheckShouldEndParagraphStrict(current_segment, prev, threshold) ==
    IF ends_with_sentence_terminator(current_segment.text) THEN TRUE
    ELSE IF prev # <<>> /\ current_segment.start - prev[1].end > threshold THEN TRUE
    ELSE FALSE

check_should_end_paragraph(current_segment, prev, threshold) ==
    IF ends_with_sentence_terminator(current_segment.text) THEN TRUE
    ELSE IF prev # <<>> /\ current_segment.start - prev[1].end >= threshold THEN TRUE
    ELSE FALSE

\* a faulty variant: the marker is looked for but never cut off
StripMarkerKeep(c) == c

\* content[:-len(marker)] when content.endswith(marker), else content
StripMarker(c) ==
    IF c # <<>> /\ c[Len(c)] = MarkerLine THEN SubSeq(c, 1, Len(c) - 1) ELSE c

EndsWithMarker(c) == c # <<>> /\ c[Len(c)] = MarkerLine

\* a faulty variant: the written paragraph is kept open
ParagraphAfterWriteKeep(paragraph) == paragraph

\* transcriber.py:187, current_paragraph = []
ParagraphAfterWrite(paragraph) == <<>>

\* segment_data of a yielded segment, transcriber.py:161-165
SegmentData(segment) ==
    [start |-> segment.start, end |-> segment.end, text |-> Strip(segment.text)]


(***************************************************************************)
(* The transcription collaborator: what segments_iter may yield.           *)
(***************************************************************************)
Texts ==
    { <<"a">>, <<" ", "a", ".", " ">>, <<"a", "!">>, <<"a", "?">>, <<" ">> }

Segment(s, e, t) == [start |-> s, end |-> e, text |-> t]

\* the end-to-end scenario of the specification, in half seconds
ScenarioSegs ==
    << Segment(0, 4, <<"H", "e", "l", "l", "o", " ", "t", "h", "e", "r", "e", ".">>),
       Segment(4, 7, <<"Q", "u", "i", "c", "k", " ", "f", "o", "l", "l", "o", "w", "-", "u", "p">>),
       Segment(12, 16, <<"N", "e", "w", " ", "t", "o", "p", "i", "c", ".">>) >>

\* one short recording, used by the batch runs
BatchSegs == << Segment(0, 1, <<" ", "a">>), Segment(2, 3, <<" ", "b", ".">>) >>

\* segments come in non-decreasing start order, each with start <= end
AnySegments(yielded) ==
    { seg \in [start : 0 .. MaxTime, end : 0 .. MaxTime, text : Texts] :
        /\ seg.start <= seg.end
        /\ yielded # <<>> => yielded[Len(yielded)].start <= seg.start }

NextSegments(m, yielded) ==
    CASE m = "scenario" ->
            IF Len(yielded) < Len(ScenarioSegs)
            THEN {ScenarioSegs[Len(yielded) + 1]} ELSE {}
      [] m = "batch" ->
            IF Len(yielded) < Len(BatchSegs)
            THEN {BatchSegs[Len(yielded) + 1]} ELSE {}
      [] OTHER ->
            IF Len(yielded) < MaxSegs THEN AnySegments(yielded) ELSE {}

\* a scripted stream ends after its last segment, any other stream anywhere
MayEnd(m, yielded) ==
    CASE m = "scenario" -> Len(yielded) = Len(ScenarioSegs)
      [] OTHER -> TRUE

(***************************************************************************)
(* transcriber.py: transcribe_audio, one action per step.                  *)
(***************************************************************************)
File == transcripts[audio_path.base]
SetFile(lines) ==
    transcripts' = [transcripts EXCEPT ![audio_path.base] = FileOf(lines)]

Return(value) ==
    /\ pc' = "returned"
    /\ result' = value

\* transcriber.py:115-117
CheckAudioExists ==
    /\ pc = "entry"
    /\ IF audio_path \in audio_dir
       THEN pc' = "load" /\ UNCHANGED result
       ELSE Return("None")
    /\ UNCHANGED <<mainVars, diskVars, jobArgs, loopVars, content, emitted,
                   assignVars, formatVars>>

\* transcriber.py:123-128, WhisperModel(...) loads or raises
LoadModel ==
    /\ pc = "load"
    /\ \E loaded \in BOOLEAN :
          IF loaded
          THEN pc' = "create_open" /\ UNCHANGED result
          ELSE Return("None")
    /\ UNCHANGED <<mainVars, diskVars, jobArgs, loopVars, content, emitted,
                   assignVars, formatVars>>

\* transcriber.py:19, open(output_filename, "w") truncates or creates
CreateOpen ==
    /\ pc = "create_open"
    /\ SetFile(<<>>)
    /\ pc' = "create_audio"
    /\ finalized' = [finalized EXCEPT ![audio_path.base] = NoAudio]
    /\ UNCHANGED <<mainVars, audio_dir, jobArgs, loopVars, content, emitted,
                   result, assignVars, formatVars>>

\* transcriber.py:20-22, the three writes of the header
CreateWrite ==
    /\ pc \in {"create_audio", "create_started", "create_rule"}
    /\ CASE pc = "create_audio" ->
               /\ SetFile(Append(File.lines, AudioLine(audio_path)))
               /\ pc' = "create_started"
         [] pc = "create_started" ->
               /\ SetFile(Append(File.lines, StartedLine))
               /\ pc' = "create_rule"
         [] pc = "create_rule" ->
               /\ SetFile(File.lines \o <<RuleLine, BlankLine>>)
               /\ pc' = "transcribe"
    /\ UNCHANGED finalized
    /\ UNCHANGED <<mainVars, audio_dir, jobArgs, loopVars, content, emitted,
                   result, assignVars, formatVars>>

\* transcriber.py:136-158, model.transcribe(...) returns the stream or raises
\* (get_audio_duration swallows its own failures and, like the progress bar,
\* changes nothing of the state modelled)
Transcribe ==
    /\ pc = "transcribe"
    /\ \E ok \in BOOLEAN :
          IF ok
          THEN /\ pc' = "loop"
               /\ stream' = <<>>
               /\ all_segments' = <<>>
               /\ current_paragraph' = <<>>
               /\ paragraph_count' = 0
               /\ previous_segment' = <<>>
          ELSE /\ pc' = "raised"
               /\ UNCHANGED loopVars
    /\ UNCHANGED <<mainVars, diskVars, jobArgs, content, emitted, result,
                   assignVars, formatVars>>

\* transcriber.py:160-187, one pass of the loop body up to the call of
\* write_paragraph
LoopBody(segment) ==
    LET segment_data == SegmentData(segment)
        paragraph == Append(current_paragraph, segment_data)
        should_end_paragraph ==
            check_should_end_paragraph(segment_data, previous_segment,
                                       pause_threshold)
    IN  /\ stream' = Append(stream, segment)
        /\ all_segments' = Append(all_segments, segment_data)
        /\ current_paragraph' = paragraph
        /\ previous_segment' = <<segment_data>>
        /\ UNCHANGED paragraph_count
        /\ pc' = IF should_end_paragraph /\ paragraph # <<>>
                 THEN "wp_remove" ELSE "loop"

NextSegment ==
    /\ pc = "loop"
    /\ \E segment \in NextSegments(mode, stream) : LoopBody(segment)
    /\ UNCHANGED <<mainVars, diskVars, jobArgs, content, emitted, result,
                   assignVars, formatVars>>

\* the iterator raises while the next segment is decoded
IterationFails ==
    /\ pc = "loop"
    /\ pc' = "raised"
    /\ UNCHANGED <<mainVars, diskVars, jobArgs, loopVars, content, emitted,
                   result, assignVars, formatVars>>

\* transcriber.py:189-192, the stream is exhausted
StreamEnds ==
    /\ pc = "loop"
    /\ MayEnd(mode, stream)
    /\ pc' = "fin_remove"
    /\ UNCHANGED <<mainVars, diskVars, jobArgs, loopVars, content, emitted,
                   result, assignVars, formatVars>>

\* transcriber.py:69-75, remove_in_progress_marker reads the file and, when
\* it ends with the marker, reopens it with "w".  It is called by
\* write_paragraph (transcriber.py:85, whose early return for an empty
\* paragraph is never taken: the loop calls it with a non-empty one) and by
\* the final flush (transcriber.py:193 and 204).
RemoveMarkerRead ==
    /\ pc \in {"wp_remove", "fin_remove"}
    /\ content' = File.lines
    /\ IF EndsWithMarker(File.lines)
       THEN /\ SetFile(<<>>)
            /\ pc' = IF pc = "wp_remove" THEN "wp_rewrite" ELSE "fin_rewrite"
            /\ UNCHANGED result
       ELSE /\ UNCHANGED transcripts
            /\ IF pc = "wp_remove" THEN pc' = "wp_unit" /\ UNCHANGED result
               ELSE IF current_paragraph # <<>>
                    THEN pc' = "fin_unit" /\ UNCHANGED result
                    ELSE Return(TranscriptPath(audio_path))
    /\ finalized' = IF pc' = "returned"
                    THEN [finalized EXCEPT ![audio_path.base] = audio_path]
                    ELSE finalized
    /\ UNCHANGED <<mainVars, audio_dir, jobArgs, loopVars, emitted,
                   assignVars, formatVars>>

\* transcriber.py:74-76, the content without the marker is written back
RemoveMarkerWrite ==
    /\ pc \in {"wp_rewrite", "fin_rewrite"}
    /\ SetFile(StripMarker(content))
    /\ IF pc = "wp_rewrite" THEN pc' = "wp_unit" /\ UNCHANGED result
       ELSE IF current_paragraph # <<>>
            THEN pc' = "fin_unit" /\ UNCHANGED result
            ELSE Return(TranscriptPath(audio_path))
    /\ finalized' = IF pc' = "returned"
                    THEN [finalized EXCEPT ![audio_path.base] = audio_path]
                    ELSE finalized
    /\ UNCHANGED <<mainVars, audio_dir, jobArgs, loopVars, content, emitted,
                   assignVars, formatVars>>

\* transcriber.py:92-93, write_paragraph appends the paragraph
WriteUnit ==
    /\ pc = "wp_unit"
    /\ SetFile(File.lines \o <<UnitLine(current_paragraph), BlankLine>>)
    /\ emitted' = Append(emitted, current_paragraph)
    /\ pc' = "wp_marker"
    /\ UNCHANGED finalized
    /\ UNCHANGED <<mainVars, audio_dir, jobArgs, loopVars, content, result,
                   assignVars, formatVars>>

\* transcriber.py:94-95 and 186-187, the marker is appended and the loop
\* starts a new paragraph
WriteMarker ==
    /\ pc = "wp_marker"
    /\ SetFile(Append(File.lines, MarkerLine))
    /\ paragraph_count' = paragraph_count + 1
    /\ current_paragraph' = ParagraphAfterWrite(current_paragraph)
    /\ pc' = "loop"
    /\ UNCHANGED finalized
    /\ UNCHANGED <<mainVars, audio_dir, jobArgs, stream, all_segments,
                   previous_segment, content, emitted, result, assignVars,
                   formatVars>>

\* transcriber.py:194-218, the last paragraph is appended and the path returned
WriteLastUnit ==
    /\ pc = "fin_unit"
    /\ SetFile(File.lines \o <<UnitLine(current_paragraph), BlankLine>>)
    /\ emitted' = Append(emitted, current_paragraph)
    /\ paragraph_count' = paragraph_count + 1
    /\ Return(TranscriptPath(audio_path))
    /\ finalized' = IF pc' = "returned"
                    THEN [finalized EXCEPT ![audio_path.base] = audio_path]
                    ELSE finalized
    /\ UNCHANGED <<mainVars, audio_dir, jobArgs, stream, all_segments,
                   current_paragraph, previous_segment, content, assignVars,
                   formatVars>>

JobStep ==
    \/ CheckAudioExists
    \/ LoadModel
    \/ CreateOpen
    \/ CreateWrite
    \/ Transcribe
    \/ NextSegment
    \/ IterationFails
    \/ StreamEnds
    \/ RemoveMarkerRead
    \/ RemoveMarkerWrite
    \/ WriteUnit
    \/ WriteMarker
    \/ WriteLastUnit

(***************************************************************************)
(* One call of transcribe_audio on audio/a.mp3.                            *)
(***************************************************************************)
AudioA == [base |-> "a", ext |-> "mp3"]

IdleAssign ==
    /\ a_pc = "idle"
    /\ segment_start = 0
    /\ segment_end = 0
    /\ diarization = <<>>
    /\ turn_idx = 0
    /\ max_overlap = 0
    /\ assigned_speaker = "Unknown"

IdleFormat ==
    /\ f_pc = "idle"
    /\ speaker_id = <<>>
    /\ formatted = <<>>

IdleMain ==
    /\ main_pc = "idle"
    /\ untranscribed_files = <<>>
    /\ file_idx = 0
    /\ success_count = 0
    /\ failed_files = <<>>

FreshJob ==
    /\ stream = <<>>
    /\ all_segments = <<>>
    /\ current_paragraph = <<>>
    /\ paragraph_count = 0
    /\ previous_segment = <<>>
    /\ content = <<>>
    /\ emitted = <<>>
    /\ result = ""

\* what an interrupted earlier run has left behind
StaleLines ==
    <<AudioLine(AudioA), StartedLine, RuleLine, BlankLine,
      UnitLine(<<Segment(0, 1, <<"a", ".">>)>>), BlankLine, MarkerLine>>

Init ==
    /\ IdleMain
    /\ IdleAssign
    /\ IdleFormat
    /\ audio_dir \in {{AudioA}, {}}
    /\ transcripts \in {[b \in Bases |-> NoFile],
                        [b \in Bases |-> IF b = "a" THEN FileOf(StaleLines)
                                         ELSE NoFile]}
    /\ finalized = [b \in Bases |-> NoAudio]
    /\ pc = "entry"
    /\ audio_path = AudioA
    /\ \/ mode = "any" /\ pause_threshold \in 0 .. MaxPause
       \/ mode = "scenario" /\ pause_threshold = PAUSE_THRESHOLD
    /\ FreshJob

Next == JobStep

Spec == Init /\ [][Next]_vars


(***************************************************************************)
(* utils.py: get_untranscribed_files.                                      *)
(***************************************************************************)
AudioExtensions == <<"mp3", "wav", "m4a", "flac">>

\* the files a directory may hold
DirFiles ==
    { [base |-> "a", ext |-> "mp3"], [base |-> "b", ext |-> "wav"],
      [base |-> "a", ext |-> "wav"], [base |-> "b", ext |-> "txt"] }

ExtRank(audio) ==
    CHOOSE r \in 1 .. Len(AudioExtensions) : AudioExtensions[r] = audio.ext

\* utils.py:17-20: one glob per extension, in the order of the extensions;
\* the order inside one glob is the directory's
GlobOrders(dir) ==
    LET found == { f \in dir : \E r \in 1 .. Len(AudioExtensions) :
                                  AudioExtensions[r] = f.ext }
        n == Cardinality(found)
    IN  { order \in [1 .. n -> found] :
            /\ \A i, j \in 1 .. n : i # j => order[i] # order[j]
            /\ \A i, j \in 1 .. n : i < j => ExtRank(order[i]) <= ExtRank(order[j]) }

\* a faulty variant: the transcript is looked for under a name that no
\* transcript has, so every audio file is returned
UntranscribedWrongPath(audio_files, outputs) == audio_files

\* utils.py:26-36: the files whose transcript path does not exist
Untranscribed(audio_files, outputs) ==
    LET Missing(audio) == ~outputs[audio.base].exists
    IN  SelectSeq(audio_files, Missing)

(***************************************************************************)
(* main.py: the batch loop.                                                *)
(***************************************************************************)
\* main.py:41-55
Discover ==
    /\ main_pc = "start"
    /\ \E audio_files \in GlobOrders(audio_dir) :
          untranscribed_files' = Untranscribed(audio_files, transcripts)
    /\ main_pc' = IF untranscribed_files' = <<>> THEN "exit" ELSE "loop"
    /\ file_idx' = 1
    /\ success_count' = 0
    /\ failed_files' = <<>>
    /\ UNCHANGED <<diskVars, jobVars, assignVars, formatVars>>

\* main.py:57-70, the call of transcribe_audio on the next file
CallTranscribe ==
    /\ main_pc = "loop"
    /\ file_idx <= Len(untranscribed_files)
    /\ main_pc' = "call"
    /\ pc' = "entry"
    /\ audio_path' = untranscribed_files[file_idx]
    /\ pause_threshold' = PAUSE_THRESHOLD
    /\ mode' = "batch"
    /\ stream' = <<>>
    /\ all_segments' = <<>>
    /\ current_paragraph' = <<>>
    /\ paragraph_count' = 0
    /\ previous_segment' = <<>>
    /\ content' = <<>>
    /\ emitted' = <<>>
    /\ result' = ""
    /\ UNCHANGED <<untranscribed_files, file_idx, success_count, failed_files,
                   diskVars, assignVars, formatVars>>

\* main.py:72-77
RecordOutcome ==
    /\ main_pc = "call"
    /\ pc = "returned"
    /\ IF result # "None"
       THEN success_count' = success_count + 1 /\ UNCHANGED failed_files
       ELSE failed_files' = Append(failed_files, audio_path)
            /\ UNCHANGED success_count
    /\ file_idx' = file_idx + 1
    /\ main_pc' = "loop"
    /\ pc' = "idle"
    /\ UNCHANGED <<untranscribed_files, diskVars, jobArgs, loopVars, content,
                   emitted, result, assignVars, formatVars>>

\* an exception that leaves transcribe_audio leaves the loop and the program
Uncaught ==
    /\ main_pc = "call"
    /\ pc = "raised"
    /\ main_pc' = "crashed"
    /\ UNCHANGED <<untranscribed_files, file_idx, success_count, failed_files,
                   diskVars, jobVars, assignVars, formatVars>>

\* main.py:79-92
Summary ==
    /\ main_pc = "loop"
    /\ file_idx > Len(untranscribed_files)
    /\ main_pc' = "done"
    /\ UNCHANGED <<untranscribed_files, file_idx, success_count, failed_files,
                   diskVars, jobVars, assignVars, formatVars>>

\* a transcript an earlier, completed run has left
DoneLines(base) ==
    <<AudioLine([base |-> base, ext |-> "mp3"]), StartedLine, RuleLine,
      BlankLine, UnitLine(<<Segment(0, 1, <<"a", ".">>)>>), BlankLine>>

InitBatch ==
    /\ IdleAssign
    /\ IdleFormat
    /\ audio_dir \in SUBSET DirFiles
    /\ transcripts \in { t \in [Bases -> {NoFile} \cup {FileOf(DoneLines(b)) : b \in Bases}] :
                           \A b \in Bases : t[b].exists => t[b] = FileOf(DoneLines(b)) }
    /\ finalized = [b \in Bases |-> IF transcripts[b].exists
                                     THEN [base |-> b, ext |-> "mp3"]
                                     ELSE NoAudio]
    /\ main_pc = "start"
    /\ untranscribed_files = <<>>
    /\ file_idx = 0
    /\ success_count = 0
    /\ failed_files = <<>>
    /\ pc = "idle"
    /\ audio_path = NoAudio
    /\ pause_threshold = PAUSE_THRESHOLD
    /\ mode = "batch"
    /\ FreshJob

NextBatch ==
    \/ Discover
    \/ CallTranscribe
    \/ RecordOutcome
    \/ Uncaught
    \/ Summary
    \/ JobStep

SpecBatch == InitBatch /\ [][NextBatch]_vars

(***************************************************************************)
(* utils.py: one call of get_untranscribed_files on any small directory.   *)
(***************************************************************************)
MaxDirFiles == 3     \* files in the audio directory at most

AllDirFiles ==
    { f \in [base : Bases, ext : {"mp3", "wav", "m4a", "flac", "txt"}] : TRUE }

InitDiscover ==
    /\ IdleAssign
    /\ IdleFormat
    /\ audio_dir \in { d \in SUBSET AllDirFiles : Cardinality(d) <= MaxDirFiles }
    /\ transcripts \in { t \in [Bases -> {NoFile} \cup {FileOf(DoneLines(b)) : b \in Bases}] :
                           \A b \in Bases : t[b].exists => t[b] = FileOf(DoneLines(b)) }
    /\ finalized = [b \in Bases |-> IF transcripts[b].exists
                                     THEN [base |-> b, ext |-> "mp3"]
                                     ELSE NoAudio]
    /\ main_pc = "start"
    /\ untranscribed_files = <<>>
    /\ file_idx = 0
    /\ success_count = 0
    /\ failed_files = <<>>
    /\ pc = "idle"
    /\ audio_path = NoAudio
    /\ pause_threshold = PAUSE_THRESHOLD
    /\ mode = "batch"
    /\ FreshJob

NextDiscover == Discover

SpecDiscover == InitDiscover /\ [][NextDiscover]_vars

(***************************************************************************)
(* main.py run again and again on the same two directories, the output     *)
(* directory empty before the first run.                                   *)
(***************************************************************************)
\* the program has ended (main.py:47, main.py:92, or an exception that
\* nothing caught) and is started once more: a new process, the same disk
Restart ==
    /\ main_pc \in {"exit", "done", "crashed"}
    /\ main_pc' = "start"
    /\ untranscribed_files' = <<>>
    /\ file_idx' = 0
    /\ success_count' = 0
    /\ failed_files' = <<>>
    /\ pc' = "idle"
    /\ audio_path' = NoAudio
    /\ pause_threshold' = PAUSE_THRESHOLD
    /\ mode' = "batch"
    /\ stream' = <<>>
    /\ all_segments' = <<>>
    /\ current_paragraph' = <<>>
    /\ paragraph_count' = 0
    /\ previous_segment' = <<>>
    /\ content' = <<>>
    /\ emitted' = <<>>
    /\ result' = ""
    /\ UNCHANGED <<diskVars, assignVars, formatVars>>

InitRuns ==
    /\ IdleAssign
    /\ IdleFormat
    /\ audio_dir \in SUBSET DirFiles
    /\ transcripts = [b \in Bases |-> NoFile]
    /\ finalized = [b \in Bases |-> NoAudio]
    /\ main_pc = "start"
    /\ untranscribed_files = <<>>
    /\ file_idx = 0
    /\ success_count = 0
    /\ failed_files = <<>>
    /\ pc = "idle"
    /\ audio_path = NoAudio
    /\ pause_threshold = PAUSE_THRESHOLD
    /\ mode = "batch"
    /\ FreshJob

NextRuns ==
    \/ NextBatch
    \/ Restart

SpecRuns == InitRuns /\ [][NextRuns]_vars

(***************************************************************************)
(* diarizer.py: assign_speaker_to_segment.                                 *)
(***************************************************************************)
MaxTurns == 2        \* turns of one diarization at most
MaxTurnTime == 3     \* segment and turn times range over 0 .. MaxTurnTime

Speakers == {"SPEAKER_00", "SPEAKER_01"}

\* a turn of the diarization: a non-empty span and its speaker
Turns ==
    { t \in [start : 0 .. MaxTurnTime, end : 0 .. MaxTurnTime, speaker : Speakers] :
        t.start < t.end }

Max(x, y) == IF x >= y THEN x ELSE y
Min(x, y) == IF x <= y THEN x ELSE y

\* diarizer.py:51-53
Overlap(s, e, turn) ==
    LET overlap_start == Max(s, turn.start)
        overlap_end == Min(e, turn.end)
    IN  Max(0, overlap_end - overlap_start)

\* a faulty variant: a turn of equal overlap replaces the one kept
IsBetterOrEqual(overlap_duration, best) == overlap_duration >= best

\* a faulty variant: any overlapping turn replaces the one kept
IsBetterAny(overlap_duration, best) == overlap_duration > 0

\* diarizer.py:55
IsBetter(overlap_duration, best) == overlap_duration > best

\* diarizer.py:49-57, one pass of the loop
AssignStep ==
    /\ a_pc = "loop"
    /\ turn_idx < Len(diarization)
    /\ LET turn == diarization[turn_idx + 1]
           overlap_duration == Overlap(segment_start, segment_end, turn)
       IN  IF IsBetter(overlap_duration, max_overlap)
           THEN /\ max_overlap' = overlap_duration
                /\ assigned_speaker' = turn.speaker
           ELSE UNCHANGED <<max_overlap, assigned_speaker>>
    /\ turn_idx' = turn_idx + 1
    /\ UNCHANGED <<a_pc, segment_start, segment_end, diarization, mainVars,
                   diskVars, jobVars, formatVars>>

\* diarizer.py:59
AssignReturn ==
    /\ a_pc = "loop"
    /\ turn_idx = Len(diarization)
    /\ a_pc' = "returned"
    /\ UNCHANGED <<segment_start, segment_end, diarization, turn_idx,
                   max_overlap, assigned_speaker, mainVars, diskVars, jobVars,
                   formatVars>>

IdleJob ==
    /\ audio_dir = {}
    /\ transcripts = [b \in Bases |-> NoFile]
    /\ finalized = [b \in Bases |-> NoAudio]
    /\ pc = "idle"
    /\ audio_path = NoAudio
    /\ pause_threshold = PAUSE_THRESHOLD
    /\ mode = "batch"
    /\ FreshJob

RECURSIVE SeqsUpTo(_, _)
SeqsUpTo(S, n) ==
    IF n = 0 THEN {<<>>}
    ELSE LET shorter == SeqsUpTo(S, n - 1)
         IN  shorter \cup { Append(q, x) : q \in shorter, x \in S }

\* diarizer.py:46-47, the entry of the function on any segment with
\* start <= end and any turns
InitAssign ==
    /\ IdleMain
    /\ IdleJob
    /\ IdleFormat
    /\ a_pc = "loop"
    /\ segment_start \in 0 .. MaxTurnTime
    /\ segment_end \in segment_start .. MaxTurnTime
    /\ diarization \in SeqsUpTo(Turns, MaxTurns)
    /\ turn_idx = 0
    /\ max_overlap = 0
    /\ assigned_speaker = "Unknown"

NextAssign ==
    \/ AssignStep
    \/ AssignReturn

SpecAssign == InitAssign /\ [][NextAssign]_vars

(***************************************************************************)
(* diarizer.py: format_speaker_name.                                       *)
(***************************************************************************)
MaxSuffixLen == 2    \* characters after the prefix of an identifier

SPEAKER_PREFIX == <<"S", "P", "E", "A", "K", "E", "R", "_">>
SPEAKER_WORD == <<"S", "p", "e", "a", "k", "e", "r", " ">>
DigitChars == {"0", "1", "2", "3", "4", "5", "6", "7", "8", "9"}

\* str.startswith
StartsWith(s, prefix) ==
    Len(s) >= Len(prefix) /\ SubSeq(s, 1, Len(prefix)) = prefix

\* str.split(sep): the pieces between the occurrences of sep
RECURSIVE Split(_, _)
Split(s, sep) ==
    IF \A i \in 1 .. Len(s) : s[i] # sep THEN <<s>>
    ELSE LET i == CHOOSE k \in 1 .. Len(s) :
                     s[k] = sep /\ \A m \in 1 .. (k - 1) : s[m] # sep
         IN  <<SubSeq(s, 1, i - 1)>> \o Split(SubSeq(s, i + 1, Len(s)), sep)

DigitValue(c) ==
    CASE c = "0" -> 0 [] c = "1" -> 1 [] c = "2" -> 2 [] c = "3" -> 3
      [] c = "4" -> 4 [] c = "5" -> 5 [] c = "6" -> 6 [] c = "7" -> 7
      [] c = "8" -> 8 [] c = "9" -> 9

\* int(s) accepts a non-empty run of decimal digits (signs, blanks and digit
\* separators do not occur in the identifiers modelled)
IsIntLiteral(s) == s # <<>> /\ \A i \in 1 .. Len(s) : s[i] \in DigitChars

RECURSIVE IntOf(_)
IntOf(s) ==
    IF s = <<>> THEN 0
    ELSE 10 * IntOf(SubSeq(s, 1, Len(s) - 1)) + DigitValue(s[Len(s)])

\* str(number), as a text
RECURSIVE NatToText(_)
NatToText(n) ==
    IF n < 10 THEN <<Digit(n)>> ELSE Append(NatToText(n \div 10), Digit(n % 10))

\* diarizer.py:62-67; raised is TRUE when int() raises ValueError
format_speaker_name(id) ==
    IF id # <<>> /\ StartsWith(id, SPEAKER_PREFIX)
    THEN LET digits == Split(id, "_")[2]
         IN  IF IsIntLiteral(digits)
             THEN [raised |-> FALSE,
                   value |-> SPEAKER_WORD \o NatToText(IntOf(digits) + 1)]
             ELSE [raised |-> TRUE, value |-> <<>>]
    ELSE [raised |-> FALSE, value |-> id]

FormatCall ==
    /\ f_pc = "entry"
    /\ LET out == format_speaker_name(speaker_id)
       IN  /\ f_pc' = IF out.raised THEN "raised" ELSE "returned"
           /\ formatted' = out.value
    /\ UNCHANGED <<speaker_id, mainVars, diskVars, jobVars, assignVars>>

IdPrefixes == { <<>>, SPEAKER_PREFIX, <<"U", "n", "k", "n", "o", "w", "n">>, <<"S", "P", "E", "A", "K", "E", "R">> }
IdSuffixes == SeqsUpTo({"0", "5", "9", "_", "x"}, MaxSuffixLen)
SpeakerIds == { p \o q : p \in IdPrefixes, q \in IdSuffixes }

InitFormat ==
    /\ IdleMain
    /\ IdleJob
    /\ IdleAssign
    /\ f_pc = "entry"
    /\ speaker_id \in SpeakerIds
    /\ formatted = <<>>

NextFormat == FormatCall

SpecFormat == InitFormat /\ [][NextFormat]_vars

(***************************************************************************)
(* Claims about one call of transcribe_audio.                              *)
(***************************************************************************)
Succeeded == pc = "returned" /\ result # "None"

RECURSIVE Flatten(_)
Flatten(paragraphs) ==
    IF paragraphs = <<>> THEN <<>>
    ELSE Head(paragraphs) \o Flatten(Tail(paragraphs))

\* the header create_output_file writes
HeaderLines(audio) == <<AudioLine(audio), StartedLine, RuleLine, BlankLine>>

\* the lines of the first k written paragraphs
RECURSIVE UnitLines(_, _)
UnitLines(paragraphs, k) ==
    IF k = 0 THEN <<>>
    ELSE UnitLines(paragraphs, k - 1) \o <<UnitLine(paragraphs[k]), BlankLine>>

\* the position in the stream of the last segment of the k-th paragraph
RECURSIVE EndOfParagraph(_, _)
EndOfParagraph(paragraphs, k) ==
    IF k = 0 THEN 0
    ELSE EndOfParagraph(paragraphs, k - 1) + Len(paragraphs[k])

IsLastOfItsParagraph(i) ==
    \E k \in 1 .. Len(emitted) : EndOfParagraph(emitted, k) = i

\* the text, surrounding whitespace aside, ends in ".", "!" or "?"
HasTerminalPunctuation(text) ==
    \E j \in 1 .. Len(text) :
        /\ text[j] \in {".", "!", "?"}
        /\ \A m \in (j + 1) .. Len(text) : text[m] = " "

PauseBefore(i) == stream[i].start - stream[i - 1].end

\* C1: when transcribe_audio returns its output path, the written paragraphs
\* (those of the loop and the one flushed after it) concatenate to exactly
\* the yielded segments, in order, none of them is empty, and an empty
\* stream has written no paragraph.
C1_Partition ==
    Succeeded =>
        /\ Len(Flatten(emitted)) = Len(stream)
        /\ \A i \in 1 .. Len(stream) :
              Flatten(emitted)[i] = SegmentData(stream[i])
        /\ \A k \in 1 .. Len(emitted) : emitted[k] # <<>>
        /\ stream = <<>> => emitted = <<>>

\* two paragraphs, the first of two segments closed inside the loop, the
\* second flushed after the loop
C1_Witness ==
    /\ Succeeded
    /\ Len(emitted) = 2
    /\ Len(emitted[1]) = 2
    /\ current_paragraph # <<>>

\* C2: a segment that is not the last of the stream is the last of its
\* paragraph exactly when its stripped text ends in ".", "!" or "?", or it
\* has a predecessor and starts at least pause_threshold after the
\* predecessor's end.
C2_BoundaryIff ==
    Succeeded =>
        \A i \in 1 .. (Len(stream) - 1) :
            IsLastOfItsParagraph(i) <=>
                \/ HasTerminalPunctuation(stream[i].text)
                \/ i > 1 /\ PauseBefore(i) >= pause_threshold

\* a segment without terminal punctuation, not the last one, whose pause is
\* exactly the threshold, closes its paragraph
C2_Witness ==
    /\ Succeeded
    /\ \E i \in 2 .. (Len(stream) - 1) :
          /\ ~HasTerminalPunctuation(stream[i].text)
          /\ PauseBefore(i) = pause_threshold
          /\ IsLastOfItsParagraph(i)

WellFormedInProgress(lines) ==
    \E k \in 0 .. Len(emitted) :
        lines = HeaderLines(audio_path) \o UnitLines(emitted, k) \o <<MarkerLine>>

\* the positions after a write to the file and before the return
WorkRemains ==
    pc \in {"create_started", "create_rule", "transcribe", "loop",
            "wp_remove", "wp_rewrite", "wp_unit", "wp_marker",
            "fin_remove", "fin_rewrite", "fin_unit", "raised"}

\* C4: from the first write of create_output_file until the job is complete,
\* the file is the header, fully written paragraphs and the marker as its
\* last line.
C4_MarkerAlwaysLast ==
    WorkRemains => WellFormedInProgress(File.lines)

\* C5: once transcribe_audio has returned its output path, no line of the
\* file is the marker.
C5_NoMarkerWhenDone ==
    Succeeded =>
        /\ File.exists
        /\ \A i \in 1 .. Len(File.lines) : File.lines[i] # MarkerLine

\* the marker has been written, and the last segment closed its paragraph
C5_Witness ==
    /\ Succeeded
    /\ emitted # <<>>
    /\ Flatten(emitted) = all_segments
    /\ current_paragraph = <<>>

FullTextHeading == <<"Full Plain Text Transcript:">>

\* C6: a finalized file keeps its header and ends with a separator line and
\* the full plain text section, the space-joined texts of the written units.
C6_FullTextSection ==
    Succeeded =>
        LET lines == File.lines
            texts == [k \in 1 .. Len(emitted) |->
                        JoinTexts([i \in 1 .. Len(emitted[k]) |->
                                     emitted[k][i].text])]
        IN  /\ Len(lines) >= 3
            /\ lines[1] = AudioLine(audio_path)
            /\ lines[Len(lines) - 1] = FullTextHeading
            /\ lines[Len(lines)] = JoinTexts(texts)
            /\ \E j \in 1 .. (Len(lines) - 2) : j > 3 /\ lines[j] = RuleLine

(***************************************************************************)
(* Claims about the batch loop.                                            *)
(***************************************************************************)
BatchEnded == main_pc \in {"done", "crashed"}

\* C7: no failure of the model, of the transcribe call or of the iteration
\* leaves transcribe_audio as an exception, and a batch that has ended has
\* counted every discovered file as a success or as a failure.
C7_FailuresStayLocal ==
    /\ pc # "raised"
    /\ BatchEnded =>
          success_count + Len(failed_files) = Len(untranscribed_files)

(***************************************************************************)
(* Claims about assign_speaker_to_segment.                                 *)
(***************************************************************************)
OverlapWith(k) ==
    LET lo == Max(segment_start, diarization[k].start)
        hi == Min(segment_end, diarization[k].end)
    IN  IF hi > lo THEN hi - lo ELSE 0

Contains(k) ==
    /\ diarization[k].start <= segment_start
    /\ segment_end <= diarization[k].end

TurnIndexes == 1 .. Len(diarization)

\* the earliest turn among those of the greatest overlap
IsEarliestBest(k) ==
    /\ \A j \in TurnIndexes : OverlapWith(j) <= OverlapWith(k)
    /\ \A j \in 1 .. (k - 1) : OverlapWith(j) < OverlapWith(k)

\* C8: the speaker returned is the one of the earliest turn of greatest
\* overlap when some turn overlaps the segment, and "Unknown" exactly when
\* no turn overlaps it.
C8_GreatestOverlap ==
    a_pc = "returned" =>
        /\ (\E j \in TurnIndexes : OverlapWith(j) > 0) =>
              \E k \in TurnIndexes :
                  IsEarliestBest(k) /\ assigned_speaker = diarization[k].speaker
        /\ assigned_speaker = "Unknown" <=>
              \A j \in TurnIndexes : OverlapWith(j) = 0

\* two turns of different speakers overlap the segment equally, and the
\* earlier one is returned
C8_Witness ==
    /\ a_pc = "returned"
    /\ Len(diarization) = 2
    /\ OverlapWith(1) = OverlapWith(2)
    /\ OverlapWith(1) > 0
    /\ diarization[1].speaker # diarization[2].speaker
    /\ assigned_speaker = diarization[1].speaker

ContainedInExactlyOne(k) ==
    /\ Contains(k)
    /\ \A j \in TurnIndexes : Contains(j) => j = k

\* C9, as stated: a segment with start <= end, of length zero or more, that
\* exactly one turn contains gets that turn's speaker.
C9_ContainedAnyLength ==
    a_pc = "returned" =>
        \A k \in TurnIndexes :
            ContainedInExactlyOne(k) => assigned_speaker = diarization[k].speaker

\* C9, amended: a segment with start < end that exactly one turn contains
\* gets that turn's speaker.
C9_ContainedPositiveLength ==
    (a_pc = "returned" /\ segment_start < segment_end) =>
        \A k \in TurnIndexes :
            ContainedInExactlyOne(k) => assigned_speaker = diarization[k].speaker

\* the first turn contains the segment, a later turn of another speaker
\* overlaps a part of it
C9_Witness ==
    /\ a_pc = "returned"
    /\ segment_start < segment_end
    /\ Len(diarization) = 2
    /\ ContainedInExactlyOne(1)
    /\ OverlapWith(2) > 0
    /\ diarization[1].speaker # diarization[2].speaker
    /\ assigned_speaker = diarization[1].speaker

(***************************************************************************)
(* Claims about format_speaker_name.                                       *)
(***************************************************************************)
\* SPEAKER_<n>, <n> a run of decimal digits
IsSpeakerPattern(id) ==
    /\ Len(id) > Len(SPEAKER_PREFIX)
    /\ SubSeq(id, 1, Len(SPEAKER_PREFIX)) = SPEAKER_PREFIX
    /\ \A i \in (Len(SPEAKER_PREFIX) + 1) .. Len(id) : id[i] \in DigitChars

NumberOf(id) == IntOf(SubSeq(id, Len(SPEAKER_PREFIX) + 1, Len(id)))

\* C10: SPEAKER_<n> is rendered as "Speaker <n+1>", and every other
\* identifier is returned unchanged, without an exception.
C10_FormatOrPassThrough ==
    f_pc # "entry" =>
        /\ f_pc = "returned"
        /\ formatted = IF IsSpeakerPattern(speaker_id)
                       THEN SPEAKER_WORD \o NatToText(NumberOf(speaker_id) + 1)
                       ELSE speaker_id

(***************************************************************************)
(* Claims about get_untranscribed_files.                                   *)
(***************************************************************************)
HasAudioExtension(f) == f.ext \in {"mp3", "wav", "m4a", "flac"}

Listed(files) == { files[i] : i \in 1 .. Len(files) }

\* C11: the call returns exactly the files of the audio directory with
\* extension mp3, wav, m4a or flac whose transcript path
\* <base>_transcript.txt does not exist, each once, and leaves the audio
\* directory and the output directory as they were.
C11_ExactlyTheMissing ==
    [][main_pc = "start" =>
          /\ Listed(untranscribed_files') =
                { f \in audio_dir :
                    HasAudioExtension(f) /\ ~transcripts[f.base].exists }
          /\ \A i, j \in 1 .. Len(untranscribed_files') :
                i # j => untranscribed_files'[i] # untranscribed_files'[j]
          /\ audio_dir' = audio_dir
          /\ transcripts' = transcripts]_vars

\* a.mp3 and b.wav, a transcript only for a: the result is [b.wav]
C11_Witness ==
    /\ main_pc = "loop"
    /\ audio_dir = {[base |-> "a", ext |-> "mp3"], [base |-> "b", ext |-> "wav"]}
    /\ transcripts["a"].exists
    /\ ~transcripts["b"].exists
    /\ untranscribed_files = <<[base |-> "b", ext |-> "wav"]>>

\* get_untranscribed_files has just returned
JustDiscovered == main_pc = "exit" \/ (main_pc = "loop" /\ file_idx = 1)

\* the file at the transcript path of audio is the one a completed
\* transcribe_audio(audio) has left: every unit written, no marker line
HasOwnFinalTranscript(audio) ==
    /\ transcripts[audio.base].exists
    /\ finalized[audio.base] = audio
    /\ \A i \in 1 .. Len(transcripts[audio.base].lines) :
          transcripts[audio.base].lines[i] # MarkerLine

\* C12: over any sequence of runs, an audio file is left out of the result of
\* get_untranscribed_files only if a finalized transcript of that very file
\* exists: a job that failed after the header was written, or a second audio
\* file of the same base name, never makes a file count as transcribed.
C12_OmittedOnlyIfFinalized ==
    JustDiscovered =>
        \A audio \in audio_dir :
            (HasAudioExtension(audio) /\ audio \notin Listed(untranscribed_files))
                => HasOwnFinalTranscript(audio)

=============================================================================
